---- MODULE Spec2Model ----
(***************************************************************************)
(* License activation server (src/server.py): the three SQLite tables, the *)
(* administrative writes, and verify_activation_key as the sequence of its *)
(* store statements.  Every statement of a call is one step, so calls of   *)
(* concurrent requests interleave between statements; the row written by   *)
(* INSERT becomes visible to other connections at commit.                  *)
(***************************************************************************)
EXTENDS Integers, Sequences, FiniteSets, TLC

\* ---------------------------------------------------------------- bounds
MaxQuota == 2      \* largest max_activations given to add_license_key

LicenseKeys == {"K1"}                \* keys add_license_key is called with
TestKeys == {"K1", "T1"}             \* keys add_valid_key_for_testing is called with
Keys == {"K1", "T1"}                 \* keys sent to /activate
Machines == {"m1", "m2", "m3"}       \* machine ids sent to /activate, one request at a time
RaceMachines == {"m1", "m2"}         \* machine ids sent to /activate by concurrent requests
LiveMachines == {"m1"}               \* machine ids sent to /activate in the runs checked for termination
Requests == {1, 2}                   \* server threads, each serving one request at a time

VARIABLES
    licenses,      \* table licenses: row id = position
    activations,   \* table activations, committed rows
    valid_keys,    \* table valid_keys
    writer,        \* request whose connection holds an open write transaction, 0 if none
    call,          \* per server thread: position in the code and the locals of its call
    obs            \* per server thread: what an observer of its call records

vars == <<licenses, activations, valid_keys, writer, call, obs>>

\* ---------------------------------------------------------------- decisions
DeniedRevoked == [status |-> "error", message |-> "revoked"]
ConfirmedExisting == [status |-> "success", message |-> "confirmed"]
DeniedQuotaExceededAsSuccess == [status |-> "success", message |-> "quota"]
DeniedQuotaExceeded == [status |-> "error", message |-> "quota"]
GrantedNew == [status |-> "success", message |-> "granted"]
SimulatedTestSuccess == [status |-> "success", message |-> "test"]
DeniedUnknownKey == [status |-> "error", message |-> "invalid"]
ServerError == [status |-> "error", message |-> "database"]
UnexpectedError == [status |-> "error", message |-> "unexpected"]
BadRequest == [status |-> "error", message |-> "missing"]
NoResult == [status |-> "none", message |-> "none"]

\* ---------------------------------------------------------------- table contents
\* ids of the licenses rows with this key
LicenseIds(key) == {i \in DOMAIN licenses : licenses[i].license_key = key}

\* the activations rows of a license and machine
Rows(lid, mid) ==
    {i \in DOMAIN activations :
        activations[i].license_id = lid /\ activations[i].machine_id = mid}

\* the activations rows of a license
LicenseRows(lid) == {i \in DOMAIN activations : activations[i].license_id = lid}

\* the keys in valid_keys
TestKeySet == {valid_keys[i] : i \in DOMAIN valid_keys}

\* ---------------------------------------------------------------- store statements
\* SELECT id, max_activations, is_revoked FROM licenses WHERE license_key = ?
FindLicenseUnlessTestKey(key) == IF key \in TestKeySet THEN {} ELSE LicenseIds(key)
FindLicense(key) == LicenseIds(key)

\* SELECT 1 FROM activations WHERE license_id = ? AND machine_id = ?
HasActivationNever(lid, mid) == FALSE
HasActivationAnyMachine(lid, mid) == LicenseRows(lid) # {}
HasActivation(lid, mid) == Rows(lid, mid) # {}

\* SELECT COUNT(*) FROM activations WHERE license_id = ?
CountActivations(lid) == Cardinality(LicenseRows(lid))

\* SELECT 1 FROM valid_keys WHERE license_key = ?
IsValidKeyWrongTable(key) == LicenseIds(key) # {}
IsValidKeyNoWhere(key) == valid_keys # <<>>
IsValidKey(key) == key \in TestKeySet

\* UNIQUE(license_id, machine_id) of table activations
UniqueViolationOff(lid, mid) == FALSE
UniqueViolation(lid, mid) == Rows(lid, mid) # {}

\* if is_revoked
RevokedUnchecked(is_revoked) == FALSE
Revoked(is_revoked) == is_revoked

\* if current_activations >= max_activations
QuotaReachedOffByOne(current_activations, max_activations) ==
    current_activations > max_activations
QuotaReachedUnchecked(current_activations, max_activations) == FALSE
QuotaReached(current_activations, max_activations) ==
    current_activations >= max_activations

\* except sqlite3.Error: the decision returned when the statement at pc raised
ErrorResultNotFound(pc) ==
    IF pc \in {"license", "validkey"}
    THEN [status |-> "error", message |-> "invalid"]
    ELSE [status |-> "error", message |-> "database"]
ErrorResult(pc) == [status |-> "error", message |-> "database"]

\* if not key or not machine_id
MissingDataKeyOnly(key, machine_id) == key = ""
MissingData(key, machine_id) == key = "" \/ machine_id = ""

\* ---------------------------------------------------------------- initial state
NewCall ==
    [pc |-> "idle", key |-> "", machine_id |-> "", license_id |-> 0,
     max_activations |-> 0, is_revoked |-> FALSE, current_activations |-> 0,
     result |-> NoResult]

\* found..test: the store as the call found it when it started;
\* inserts: INSERT statements that reached the table (row written, or refused by
\* the uniqueness constraint); raised: the sqlite3.Error raised, if any
NewObs ==
    [found |-> FALSE, revoked |-> FALSE, bound |-> FALSE, full |-> FALSE,
     test |-> FALSE, inserts |-> 0, raised |-> "none"]

Init ==
    /\ licenses = <<>>
    /\ activations = <<>>
    /\ valid_keys = <<>>
    /\ writer = 0
    /\ call = [r \in Requests |-> NewCall]
    /\ obs = [r \in Requests |-> NewObs]

Busy == {r \in Requests : call[r].pc # "idle"}

\* the store as it is when a call for (key, machine_id) starts
Seen(key, machine_id) ==
    LET ids == LicenseIds(key)
        lid == IF ids = {} THEN 0 ELSE CHOOSE i \in ids : TRUE
    IN  [NewObs EXCEPT
            !.found = (lid # 0),
            !.revoked = (lid # 0 /\ licenses[lid].is_revoked),
            !.bound = (lid # 0 /\ Rows(lid, machine_id) # {}),
            !.full = (lid # 0 /\
                      Cardinality(LicenseRows(lid)) >= licenses[lid].max_activations),
            !.test = (key \in TestKeySet)]

\* ---------------------------------------------------------------- administrative writes
\* INSERT OR IGNORE INTO licenses (license_key, max_activations)
add_license_key_replacing(license_key, max_activations) ==
    /\ writer = 0
    /\ licenses' =
          IF LicenseIds(license_key) # {}
          THEN [i \in DOMAIN licenses |->
                   IF licenses[i].license_key = license_key
                   THEN [license_key |-> license_key,
                         max_activations |-> max_activations,
                         is_revoked |-> FALSE]
                   ELSE licenses[i]]
          ELSE Append(licenses, [license_key |-> license_key,
                                 max_activations |-> max_activations,
                                 is_revoked |-> FALSE])
    /\ UNCHANGED <<activations, valid_keys, writer, call, obs>>
add_license_key(license_key, max_activations) ==
    /\ writer = 0
    /\ licenses' =
          IF LicenseIds(license_key) # {}
          THEN licenses
          ELSE Append(licenses, [license_key |-> license_key,
                                 max_activations |-> max_activations,
                                 is_revoked |-> FALSE])
    /\ UNCHANGED <<activations, valid_keys, writer, call, obs>>

add_valid_key_for_testing(license_key) ==
    /\ writer = 0
    /\ valid_keys' =
          IF license_key \in TestKeySet THEN valid_keys
          ELSE Append(valid_keys, license_key)
    /\ UNCHANGED <<licenses, activations, writer, call, obs>>

\* the administrative path that sets is_revoked (outside the request-time code)
Revoke(license_key) ==
    /\ writer = 0
    /\ \E i \in LicenseIds(license_key) :
          /\ ~licenses[i].is_revoked
          /\ licenses' = [licenses EXCEPT ![i].is_revoked = TRUE]
    /\ UNCHANGED <<activations, valid_keys, writer, call, obs>>

\* ---------------------------------------------------------------- /activate
\* activate(): reads key and machine_id, rejects a request that misses one,
\* otherwise calls verify_activation_key (obs' is set by the specification)
Activate(r, limit, machines) ==
    /\ call[r].pc = "idle"
    /\ \A q \in Requests : q < r => call[q].pc # "idle"
    /\ Cardinality(Busy) < limit
    /\ \E key \in Keys \cup {""}, machine_id \in machines \cup {""} :
          IF MissingData(key, machine_id)
          THEN call' = [call EXCEPT ![r].pc = "done", ![r].result = BadRequest]
          ELSE call' = [call EXCEPT ![r].pc = "connect", ![r].key = key,
                                    ![r].machine_id = machine_id]
    /\ UNCHANGED <<licenses, activations, valid_keys, writer>>

\* conn = sqlite3.connect(DB_NAME); cursor = conn.cursor()
Connect(r) ==
    /\ call[r].pc = "connect"
    /\ call' = [call EXCEPT ![r].pc = "license"]
    /\ UNCHANGED <<licenses, activations, valid_keys, writer, obs>>

\* return of a decision: the finally clause closes the connection
Return(r, c, res) ==
    /\ call' = [call EXCEPT ![r] = [c EXCEPT !.pc = "done", !.result = res]]
    /\ obs' = obs

\* 1. license lookup and the revocation check
SelectLicense(r) ==
    /\ call[r].pc = "license"
    /\ LET ids == FindLicense(call[r].key) IN
          IF ids # {}
          THEN LET lid == CHOOSE i \in ids : TRUE
                   c == [call[r] EXCEPT !.license_id = lid,
                            !.max_activations = licenses[lid].max_activations,
                            !.is_revoked = licenses[lid].is_revoked]
               IN  IF Revoked(c.is_revoked)
                   THEN Return(r, c, DeniedRevoked)
                   ELSE /\ call' = [call EXCEPT ![r] = [c EXCEPT !.pc = "binding"]]
                        /\ obs' = obs
          ELSE /\ call' = [call EXCEPT ![r].pc = "validkey"]
               /\ obs' = obs
    /\ UNCHANGED <<licenses, activations, valid_keys, writer>>

\* 2. is the key already bound to this machine
SelectBinding(r) ==
    /\ call[r].pc = "binding"
    /\ IF HasActivation(call[r].license_id, call[r].machine_id)
       THEN Return(r, call[r], ConfirmedExisting)
       ELSE /\ call' = [call EXCEPT ![r].pc = "count"]
            /\ obs' = obs
    /\ UNCHANGED <<licenses, activations, valid_keys, writer>>

\* 3. the activation limit
SelectCountNotRead(r) ==
    /\ call[r].pc = "count"
    /\ LET c == call[r]
       IN  IF QuotaReached(c.current_activations, c.max_activations)
           THEN Return(r, c, DeniedQuotaExceeded)
           ELSE /\ call' = [call EXCEPT ![r] = [c EXCEPT !.pc = "insert"]]
                /\ obs' = obs
    /\ UNCHANGED <<licenses, activations, valid_keys, writer>>
SelectCount(r) ==
    /\ call[r].pc = "count"
    /\ LET c == [call[r] EXCEPT
                    !.current_activations = CountActivations(call[r].license_id)]
       IN  IF QuotaReached(c.current_activations, c.max_activations)
           THEN Return(r, c, DeniedQuotaExceeded)
           ELSE /\ call' = [call EXCEPT ![r] = [c EXCEPT !.pc = "insert"]]
                /\ obs' = obs
    /\ UNCHANGED <<licenses, activations, valid_keys, writer>>

\* 4. INSERT INTO activations: opens the write transaction of the connection;
\*    a row that breaks UNIQUE(license_id, machine_id) raises sqlite3.IntegrityError,
\*    which the handler of sqlite3.Error turns into the server error
Insert(r) ==
    /\ call[r].pc = "insert"
    /\ writer = 0
    /\ IF UniqueViolation(call[r].license_id, call[r].machine_id)
       THEN /\ call' = [call EXCEPT ![r].pc = "done",
                                    ![r].result = ErrorResult("insert")]
            /\ obs' = [obs EXCEPT ![r].inserts = @ + 1, ![r].raised = "integrity"]
            /\ writer' = writer
       ELSE /\ call' = [call EXCEPT ![r].pc = "commit"]
            /\ obs' = [obs EXCEPT ![r].inserts = @ + 1]
            /\ writer' = r
    /\ UNCHANGED <<licenses, activations, valid_keys>>

\* conn.commit(): the inserted row becomes part of the table
CommitReplacing(r) ==
    /\ call[r].pc = "commit"
    /\ writer = r
    /\ activations' =
            <<[license_id |-> call[r].license_id, machine_id |-> call[r].machine_id]>>
    /\ writer' = 0
    /\ call' = [call EXCEPT ![r].pc = "done", ![r].result = GrantedNew]
    /\ obs' = obs
    /\ UNCHANGED <<licenses, valid_keys>>
Commit(r) ==
    /\ call[r].pc = "commit"
    /\ writer = r
    /\ activations' = Append(activations,
            [license_id |-> call[r].license_id, machine_id |-> call[r].machine_id])
    /\ writer' = 0
    /\ call' = [call EXCEPT ![r].pc = "done", ![r].result = GrantedNew]
    /\ obs' = obs
    /\ UNCHANGED <<licenses, valid_keys>>

\* 5. not a license: the test keys
SelectValidKey(r) ==
    /\ call[r].pc = "validkey"
    /\ IF IsValidKey(call[r].key)
       THEN Return(r, call[r], SimulatedTestSuccess)
       ELSE Return(r, call[r], DeniedUnknownKey)
    /\ UNCHANGED <<licenses, activations, valid_keys, writer>>

\* a store statement raises sqlite3.Error (connection, disk, lock timeout):
\* except sqlite3.Error returns the server error, finally closes the connection,
\* which rolls an open transaction back
StoreFaultKeepsRow(r) ==
    /\ call[r].pc \in {"connect", "license", "binding", "count", "insert",
                       "commit", "validkey"}
    /\ call' = [call EXCEPT ![r].pc = "done", ![r].result = ErrorResult(call[r].pc)]
    /\ obs' = [obs EXCEPT ![r].raised = "operational"]
    /\ writer' = IF writer = r THEN 0 ELSE writer
    /\ activations' =
          IF writer = r
          THEN Append(activations, [license_id |-> call[r].license_id,
                                    machine_id |-> call[r].machine_id])
          ELSE activations
    /\ UNCHANGED <<licenses, valid_keys>>
StoreFaultNoLockTimeout(r) ==
    /\ call[r].pc \in {"connect", "license", "binding", "count", "commit", "validkey"}
    /\ call' = [call EXCEPT ![r].pc = "done", ![r].result = ErrorResult(call[r].pc)]
    /\ obs' = [obs EXCEPT ![r].raised = "operational"]
    /\ writer' = IF writer = r THEN 0 ELSE writer
    /\ UNCHANGED <<licenses, activations, valid_keys>>
StoreFault(r) ==
    /\ call[r].pc \in {"connect", "license", "binding", "count", "insert",
                       "commit", "validkey"}
    /\ call' = [call EXCEPT ![r].pc = "done", ![r].result = ErrorResult(call[r].pc)]
    /\ obs' = [obs EXCEPT ![r].raised = "operational"]
    /\ writer' = IF writer = r THEN 0 ELSE writer
    /\ UNCHANGED <<licenses, activations, valid_keys>>

\* a statement raises an exception that is not a sqlite3.Error:
\* except Exception returns the unexpected-error decision, finally closes the
\* connection
Unexpected(r) ==
    /\ call[r].pc \in {"connect", "license", "binding", "count", "insert",
                       "commit", "validkey"}
    /\ call' = [call EXCEPT ![r].pc = "done", ![r].result = UnexpectedError]
    /\ obs' = [obs EXCEPT ![r].raised = "unexpected"]
    /\ writer' = IF writer = r THEN 0 ELSE writer
    /\ UNCHANGED <<licenses, activations, valid_keys>>

\* return jsonify(result): the thread is free for the next request
Respond(r) ==
    /\ call[r].pc = "done"
    /\ call' = [call EXCEPT ![r] = NewCall]
    /\ obs' = [obs EXCEPT ![r] = NewObs]
    /\ UNCHANGED <<licenses, activations, valid_keys, writer>>

\* ---------------------------------------------------------------- specifications
Admin ==
    \/ \E k \in LicenseKeys, n \in 1..MaxQuota : add_license_key(k, n)
    \/ \E k \in TestKeys : add_valid_key_for_testing(k)
    \/ \E k \in LicenseKeys : Revoke(k)

Step(r) ==
    \/ Connect(r)
    \/ SelectLicense(r)
    \/ SelectBinding(r)
    \/ SelectCount(r)
    \/ Insert(r)
    \/ Commit(r)
    \/ SelectValidKey(r)
    \/ Respond(r)

\* concurrent requests, store faults possible
Next ==
    \/ Admin
    \/ \E r \in Requests : Activate(r, Cardinality(Requests), RaceMachines) /\ obs' = obs
    \/ \E r \in Requests : Step(r)
    \/ \E r \in Requests : StoreFault(r)

Spec == Init /\ [][Next]_vars

\* concurrent requests, with both exception handlers of verify_activation_key
FaultNext ==
    \/ Next
    \/ \E r \in Requests : Unexpected(r)

FaultSpec == Init /\ [][FaultNext]_vars

\* every statement a call has reached finishes: it completes, or it raises (an
\* INSERT that finds the write transaction of another connection open raises
\* when the lock timeout of the connection runs out)
LiveNext ==
    \/ Admin
    \/ \E r \in Requests : Activate(r, Cardinality(Requests), LiveMachines) /\ obs' = obs
    \/ \E r \in Requests : Step(r)
    \/ \E r \in Requests : StoreFault(r)
    \/ \E r \in Requests : Unexpected(r)

LiveSpec ==
    /\ Init
    /\ [][LiveNext]_vars
    /\ \A r \in Requests : WF_vars(Step(r) \/ StoreFault(r))

\* one request at a time, no store fault; the observer records the store as
\* each call finds it
SeqNext ==
    \/ Admin
    \/ \E r \in Requests :
          /\ Activate(r, 1, Machines)
          /\ obs' = [obs EXCEPT ![r] = Seen(call'[r].key, call'[r].machine_id)]
    \/ \E r \in Requests : Step(r)

SeqSpec == Init /\ [][SeqNext]_vars

\* one call at a time and nothing else between the start of a call and its
\* response: the administrative writes run only while no request is served
SerialNext ==
    \/ Busy = {} /\ Admin
    \/ \E r \in Requests :
          /\ Activate(r, 1, Machines)
          /\ obs' = [obs EXCEPT ![r] = Seen(call'[r].key, call'[r].machine_id)]
    \/ \E r \in Requests : Step(r)

SerialSpec == Init /\ [][SerialNext]_vars

\* ---------------------------------------------------------------- claims
Done(r) == call[r].pc = "done"
StoreUnchanged ==
    /\ licenses' = licenses
    /\ activations' = activations
    /\ valid_keys' = valid_keys

\* C1: the number of activations rows of a license never exceeds its
\* max_activations, whatever the interleaving of calls for distinct machines.
C1_QuotaNeverExceeded ==
    \A lid \in DOMAIN licenses :
        Cardinality(LicenseRows(lid)) <= licenses[lid].max_activations

\* C2: the store never holds two rows for one (license_id, machine_id); and a
\* call for (L, M) that found L not revoked and has returned without a store
\* fault leaves exactly one row for (L, M), when no other machine holds a row of L.
C2_OneRowPerPair ==
    /\ \A lid \in DOMAIN licenses, mid \in Machines : Cardinality(Rows(lid, mid)) <= 1
    /\ \A r \in Requests :
          ( /\ Done(r)
            /\ call[r].license_id # 0
            /\ ~call[r].is_revoked
            /\ obs[r].raised # "operational"
            /\ LicenseRows(call[r].license_id)
                  = Rows(call[r].license_id, call[r].machine_id) )
          => Cardinality(Rows(call[r].license_id, call[r].machine_id)) = 1

\* C2 witness: two calls for the same pair raced; one granted, one lost the
\* insert to the uniqueness constraint; one row
C2_Witness ==
    \E r, q \in Requests :
        /\ r # q /\ Done(r) /\ Done(q)
        /\ call[r].key = call[q].key /\ call[r].machine_id = call[q].machine_id
        /\ call[r].result = GrantedNew
        /\ obs[q].raised = "integrity"
        /\ Cardinality(Rows(call[r].license_id, call[r].machine_id)) = 1

\* C3: a call whose insert hit the uniqueness violation returns success.
C3_LoserReportsSuccess ==
    \A r \in Requests :
        (Done(r) /\ obs[r].raised = "integrity") => call[r].result = ConfirmedExisting

\* C4: the license read of a call whose license row is revoked ends the call
\* with DeniedRevoked and changes nothing, whether or not the machine is bound
\* and whatever the count; a call that read a revoked row has returned
\* DeniedRevoked and executed no INSERT.
C4_Inv ==
    \A r \in Requests :
        (call[r].license_id # 0 /\ call[r].is_revoked)
        => (Done(r) /\ call[r].result = DeniedRevoked /\ obs[r].inserts = 0)

C4_Read ==
    \A r \in Requests :
        ( /\ call[r].pc = "license" /\ call'[r] # call[r]
          /\ obs'[r].raised = "none"
          /\ \E i \in LicenseIds(call[r].key) : licenses[i].is_revoked )
        => /\ call'[r].pc = "done"
           /\ call'[r].result = DeniedRevoked
           /\ StoreUnchanged

C4_RevocationPrecedence == []C4_Inv /\ [][C4_Read]_vars

\* C4 witness: a machine holding a row of the license is denied after the revocation
C4_Witness ==
    \E r \in Requests :
        /\ Done(r) /\ call[r].result = DeniedRevoked
        /\ Rows(call[r].license_id, call[r].machine_id) # {}
        /\ Cardinality(LicenseRows(call[r].license_id)) < call[r].max_activations

\* C5: a call for machine M on a license found not revoked returns GrantedNew
\* and leaves one row when M was unbound and a slot free, and returns
\* ConfirmedExisting when M was bound (the second of two sequential calls),
\* executing no INSERT and changing nothing in the store.
C5_Inv ==
    \A r \in Requests :
        (Done(r) /\ obs[r].found /\ call[r].license_id # 0 /\ ~call[r].is_revoked)
        => /\ obs[r].bound
                => /\ call[r].result = ConfirmedExisting
                   /\ obs[r].inserts = 0
                   /\ Cardinality(Rows(call[r].license_id, call[r].machine_id)) = 1
           /\ (~obs[r].bound /\ ~obs[r].full)
                => /\ call[r].result = GrantedNew
                   /\ Cardinality(Rows(call[r].license_id, call[r].machine_id)) = 1

C5_Frame ==
    \A r \in Requests : (obs[r].bound /\ call'[r] # call[r]) => StoreUnchanged

C5_Idempotence == []C5_Inv /\ [][C5_Frame]_vars

\* C5 witness: the second call for a bound machine has returned ConfirmedExisting
C5_Witness ==
    \E r \in Requests :
        /\ Done(r) /\ obs[r].bound /\ ~call[r].is_revoked
        /\ call[r].result = ConfirmedExisting
        /\ Cardinality(Rows(call[r].license_id, call[r].machine_id)) = 1

\* C6: with one request at a time, a call from a machine not bound to a license
\* that is not revoked and already holds max_activations rows returns
\* DeniedQuotaExceeded, executes no INSERT and leaves no row for the machine.
C6_QuotaEnforced ==
    \A r \in Requests :
        ( /\ Done(r) /\ obs[r].found /\ call[r].license_id # 0
          /\ ~call[r].is_revoked
          /\ obs[r].full /\ ~obs[r].bound )
        => /\ call[r].result = DeniedQuotaExceeded
           /\ obs[r].inserts = 0
           /\ Rows(call[r].license_id, call[r].machine_id) = {}
           /\ Cardinality(LicenseRows(call[r].license_id)) = call[r].max_activations

\* C6 witness: two distinct machines hold the two slots, the third is denied
C6_Witness ==
    \E r \in Requests :
        /\ Done(r) /\ call[r].result = DeniedQuotaExceeded
        /\ call[r].max_activations = 2
        /\ Cardinality({activations[i].machine_id :
                            i \in LicenseRows(call[r].license_id)}) = 2
        /\ Rows(call[r].license_id, call[r].machine_id) = {}

\* C7: while the key of a call is in valid_keys and in no licenses row, no step
\* of the call changes licenses, activations or valid_keys, and the call
\* returns SimulatedTestSuccess, having executed no INSERT, unless a store
\* statement fails.
C7_Frame ==
    \A r \in Requests :
        ( /\ call'[r] # call[r] /\ call[r].pc \notin {"idle", "done"}
          /\ call[r].key \in TestKeySet /\ LicenseIds(call[r].key) = {} )
        => /\ StoreUnchanged
           /\ (call'[r].pc = "done" /\ obs'[r].raised = "none")
                 => (call'[r].result = SimulatedTestSuccess /\ obs'[r].inserts = 0)

C7_TestKeyIsolation == [][C7_Frame]_vars

\* C7 witness: the same test key has succeeded for two machines, with
\* activations of a license present in the store
C7_Witness ==
    \E r, q \in Requests :
        /\ Done(r) /\ Done(q)
        /\ call[r].key = call[q].key /\ call[r].machine_id # call[q].machine_id
        /\ call[r].result = SimulatedTestSuccess
        /\ call[q].result = SimulatedTestSuccess
        /\ LicenseIds(call[r].key) = {}
        /\ activations # <<>>

\* C8: a call whose key is in no licenses row and not in valid_keys returns
\* DeniedUnknownKey unless a store statement fails, and no step of such a call
\* changes the store.
C8_Inv ==
    \A r \in Requests :
        (Done(r) /\ call[r].key # "" /\ LicenseIds(call[r].key) = {}
                 /\ call[r].key \notin TestKeySet /\ obs[r].raised = "none")
        => (call[r].result = DeniedUnknownKey /\ obs[r].inserts = 0)

C8_Frame ==
    \A r \in Requests :
        (call'[r] # call[r] /\ LicenseIds(call[r].key) = {}
                            /\ call[r].key \notin TestKeySet)
        => StoreUnchanged

C8_UnknownKey == []C8_Inv /\ [][C8_Frame]_vars

\* C8 witness: an unknown key is denied while the store holds a license with
\* activations and a test key
C8_Witness ==
    \E r \in Requests :
        /\ Done(r) /\ call[r].result = DeniedUnknownKey
        /\ activations # <<>> /\ valid_keys # <<>>

\* C9: a call executes at most one INSERT, and only after it found the license
\* not revoked, the machine not bound and the count below max_activations; the
\* activations table changes only by the commit of such a call, by one row,
\* and the call returns GrantedNew; calls never change licenses or valid_keys;
\* an INSERT is followed by the commit or by the return, never by another INSERT.
ReadOnlyResults ==
    {DeniedRevoked, ConfirmedExisting, DeniedQuotaExceeded, SimulatedTestSuccess,
     DeniedUnknownKey}

C9_Inv ==
    \A r \in Requests :
        /\ obs[r].inserts <= 1
        /\ obs[r].inserts >= 1
              => /\ call[r].license_id # 0
                 /\ ~call[r].is_revoked
                 /\ call[r].current_activations < call[r].max_activations
        /\ (Done(r) /\ call[r].result \in ReadOnlyResults) => obs[r].inserts = 0

C9_Frame ==
    /\ activations' # activations
          => \E r \in Requests :
                /\ call[r].pc = "commit" /\ call'[r].pc = "done"
                /\ call'[r].result = GrantedNew
                /\ obs[r].inserts = 1
                /\ activations' = Append(activations,
                        [license_id |-> call[r].license_id,
                         machine_id |-> call[r].machine_id])
    /\ (licenses' # licenses \/ valid_keys' # valid_keys) => call' = call
    /\ \A r \in Requests :
          /\ (call[r].pc = "insert" /\ call'[r] # call[r])
                => call'[r].pc \in {"commit", "done"}
          /\ (call[r].pc = "commit" /\ call'[r] # call[r]) => call'[r].pc = "done"
          /\ (call'[r].pc = "insert" /\ call[r].pc # "insert")
                => call[r].pc = "count"
          /\ (call'[r].pc = "count" /\ call[r].pc # "count")
                => /\ call[r].pc = "binding"
                   /\ Rows(call[r].license_id, call[r].machine_id) = {}

C9_OneMutation == []C9_Inv /\ [][C9_Frame]_vars

\* C9 witness: a call whose single INSERT failed has returned
C9_Witness ==
    \E r \in Requests :
        Done(r) /\ obs[r].raised = "integrity" /\ obs[r].inserts = 1

\* C10: a call in which a store statement raised returns ServerError; the step
\* that raises leaves the three tables as they are and closes the transaction
\* of the call, and a row is only ever added by a call in which nothing raised.
C10_Inv ==
    \A r \in Requests :
        (Done(r) /\ obs[r].raised # "none") => call[r].result = ServerError

C10_Frame ==
    /\ \A r \in Requests :
          (obs[r].raised = "none" /\ obs'[r].raised # "none")
          => (StoreUnchanged /\ writer' # r /\ call'[r].pc = "done")
    /\ activations' # activations
          => \E r \in Requests :
                /\ call'[r] # call[r]
                /\ obs'[r].raised = "none"

C10_StoreFailure == []C10_Inv /\ [][C10_Frame]_vars

\* C10 witness: the commit of a call failed; its row is not in the table
C10_Witness ==
    \E r \in Requests :
        /\ Done(r) /\ obs[r].raised = "operational" /\ obs[r].inserts = 1
        /\ call[r].result = ServerError
        /\ Rows(call[r].license_id, call[r].machine_id) = {}
        /\ writer # r

\* C11: run without interleaving, a call returns the outcome of the ordered
\* procedure applied to the store it started on: revoked first, then the
\* binding (also at full quota), then the quota, then the grant, which adds the
\* row; without a license the test keys, then the unknown key.
Outcome(o) ==
    IF o.found
    THEN IF o.revoked THEN DeniedRevoked
         ELSE IF o.bound THEN ConfirmedExisting
         ELSE IF o.full THEN DeniedQuotaExceeded
         ELSE GrantedNew
    ELSE IF o.test THEN SimulatedTestSuccess
         ELSE DeniedUnknownKey

C11_OrderedProcedure ==
    \A r \in Requests :
        (Done(r) /\ call[r].result # BadRequest)
        => /\ call[r].result = Outcome(obs[r])
           /\ obs[r].inserts = (IF call[r].result = GrantedNew THEN 1 ELSE 0)
           /\ call[r].result = GrantedNew
                 => Cardinality(Rows(call[r].license_id, call[r].machine_id)) = 1

\* C11 witness: after m1 and m2 took the two slots of a license (a call of a
\* third machine leaves no row), the call of m1 is confirmed at full quota
C11_Witness ==
    \E r \in Requests :
        /\ Done(r) /\ call[r].result = ConfirmedExisting
        /\ call[r].machine_id = "m1" /\ call[r].max_activations = 2
        /\ obs[r].full /\ obs[r].bound
        /\ activations = <<[license_id |-> call[r].license_id, machine_id |-> "m1"],
                           [license_id |-> call[r].license_id, machine_id |-> "m2"]>>

\* C12: the status of a returned decision is fixed by its variant: confirmed,
\* granted and test success carry success, every denial and both server errors
\* carry error; and a call that resolved its key to a license returns success
\* only as ConfirmedExisting or GrantedNew, with the row of (license,
\* machine_id) in the table when it returns.
C12_StatusOfVariant ==
    \A r \in Requests :
        Done(r) =>
            /\ call[r].result.message \in {"confirmed", "granted", "test"}
                  => call[r].result.status = "success"
            /\ call[r].result.message \in
                     {"revoked", "quota", "invalid", "database", "unexpected", "missing"}
                  => call[r].result.status = "error"
            /\ call[r].result.status \in {"success", "error"}
            /\ (call[r].result.status = "success" /\ call[r].license_id # 0)
                  => /\ call[r].result \in {ConfirmedExisting, GrantedNew}
                     /\ Rows(call[r].license_id, call[r].machine_id) # {}
            /\ (call[r].result.status = "success" /\ call[r].license_id = 0)
                  => call[r].result = SimulatedTestSuccess

\* C12 witness: one call has returned success with its row in the table, a
\* call of another machine on the same license has returned an error without one
C12_Witness ==
    \E r, q \in Requests :
        /\ Done(r) /\ Done(q)
        /\ call[r].license_id # 0 /\ call[q].license_id = call[r].license_id
        /\ call[r].result.status = "success"
        /\ Rows(call[r].license_id, call[r].machine_id) # {}
        /\ call[q].result = DeniedQuotaExceeded
        /\ Rows(call[q].license_id, call[q].machine_id) = {}

\* C13: every step leaves the activations rows it found in place, unchanged
\* and in their positions; the table changes only by the commit of a call that
\* returns GrantedNew, which adds one row; so a machine bound to a license
\* stays bound.
C13_Frame ==
    /\ Len(activations') >= Len(activations)
    /\ SubSeq(activations', 1, Len(activations)) = activations
    /\ \A i \in DOMAIN activations :
          Rows(activations[i].license_id, activations[i].machine_id)' # {}
    /\ activations' # activations
          => /\ Len(activations') = Len(activations) + 1
             /\ \E r \in Requests :
                   /\ call[r].pc = "commit"
                   /\ call'[r].result = GrantedNew
                   /\ activations'[Len(activations')].machine_id = call[r].machine_id

C13_RowsOnlyGrow == [][C13_Frame]_vars

\* C13 witness: two rows of a license are in the table after the license was
\* revoked and a later call on it was denied
C13_Witness ==
    /\ Len(activations) = 2
    /\ \E r \in Requests :
          /\ Done(r) /\ call[r].result = DeniedRevoked
          /\ LicenseRows(call[r].license_id) = {1, 2}

\* C14: add_license_key on a key that has a licenses row changes nothing, and
\* add_valid_key_for_testing on a key already in valid_keys changes nothing:
\* each key has at most one licenses row and one valid_keys row, every step
\* keeps the id, key and max_activations of the existing licenses rows and
\* never clears is_revoked, and an administrative write leaves activations alone.
C14_Inv ==
    /\ \A k \in LicenseKeys : Cardinality(LicenseIds(k)) <= 1
    /\ Cardinality(TestKeySet) = Len(valid_keys)

C14_Frame ==
    /\ \A k \in LicenseKeys, n \in 1..MaxQuota :
          (LicenseIds(k) # {} /\ add_license_key(k, n)) => UNCHANGED vars
    /\ \A k \in TestKeys :
          (k \in TestKeySet /\ add_valid_key_for_testing(k)) => UNCHANGED vars
    /\ \A i \in DOMAIN licenses :
          /\ i \in DOMAIN licenses'
          /\ licenses'[i].license_key = licenses[i].license_key
          /\ licenses'[i].max_activations = licenses[i].max_activations
          /\ licenses[i].is_revoked => licenses'[i].is_revoked
    /\ \A i \in DOMAIN valid_keys :
          i \in DOMAIN valid_keys' /\ valid_keys'[i] = valid_keys[i]
    /\ (licenses' # licenses \/ valid_keys' # valid_keys)
          => (activations' = activations /\ call' = call)

C14_AdminIdempotent == []C14_Inv /\ [][C14_Frame]_vars

\* C14 witness: the license exists with max_activations 1, revoked and with a
\* row, both test keys are stored, and no write transaction is open, so that
\* add_license_key(key, 2) and add_valid_key_for_testing meet existing keys
C14_Witness ==
    /\ writer = 0
    /\ Len(licenses) = 1
    /\ licenses[1].max_activations = 1 /\ licenses[1].is_revoked
    /\ LicenseRows(1) # {}
    /\ TestKeySet = TestKeys

\* C15: a request that misses key or machine_id is answered by the pre-check
\* with the bad-request error, from the idle thread, without a step of
\* verify_activation_key and without a change of the store; every call of
\* verify_activation_key runs with key and machine_id both non-empty.
C15_Inv ==
    \A r \in Requests :
        /\ (call[r].pc # "idle" /\ call[r].result # BadRequest)
              => (call[r].key # "" /\ call[r].machine_id # "")
        /\ call[r].result = BadRequest
              => /\ call[r] = [NewCall EXCEPT !.pc = "done", !.result = BadRequest]
                 /\ obs[r].inserts = 0 /\ obs[r].raised = "none"

C15_Frame ==
    \A r \in Requests :
        /\ (call'[r].result = BadRequest /\ call[r].result # BadRequest)
              => (call[r].pc = "idle" /\ StoreUnchanged /\ writer' = writer)
        /\ (call[r].pc = "idle" /\ call'[r].pc = "connect")
              => ~MissingData(call'[r].key, call'[r].machine_id)
        /\ (call'[r].pc = "connect" /\ call[r].pc # "connect") => call[r].pc = "idle"

C15_PreCheck == []C15_Inv /\ [][C15_Frame]_vars

\* C15 witness: a request without data was rejected while the call of another
\* request holds its inserted row before the commit
C15_Witness ==
    \E r, q \in Requests :
        /\ Done(r) /\ call[r].result = BadRequest
        /\ call[q].pc = "commit" /\ writer = q
        /\ activations # <<>>

Decisions ==
    {DeniedRevoked, ConfirmedExisting, DeniedQuotaExceeded, GrantedNew,
     SimulatedTestSuccess, DeniedUnknownKey, ServerError, UnexpectedError}

C16_Returned ==
    \A r \in Requests :
        /\ (Done(r) /\ call[r].result # BadRequest) => call[r].result \in Decisions
        /\ (Done(r) /\ obs[r].raised # "none")
              => call[r].result \in {ServerError, UnexpectedError}
        /\ call[r].pc \in {"idle", "connect", "license", "binding", "count",
                            "insert", "commit", "validkey", "done"}

C17_Inv ==
    \A r \in Requests :
        /\ (call[r].pc \in {"binding", "count", "insert", "commit"}
                \/ (Done(r) /\ call[r].license_id # 0))
              => /\ call[r].license_id \in LicenseIds(call[r].key)
                 /\ call[r].max_activations
                        = licenses[call[r].license_id].max_activations
                 /\ call[r].is_revoked = licenses[call[r].license_id].is_revoked
        /\ call[r].pc = "insert"
              => call[r].current_activations = CountActivations(call[r].license_id)
        /\ (Done(r) /\ call[r].result # BadRequest)
              => LET again == Seen(call[r].key, call[r].machine_id) IN
                     IF call[r].result = GrantedNew
                     THEN Outcome(again) = ConfirmedExisting
                     ELSE /\ Outcome(again) = call[r].result
                          /\ again = [obs[r] EXCEPT !.inserts = 0, !.raised = "none"]

C17_Frame ==
    \A r \in Requests :
        /\ (call[r].pc = "idle" /\ call'[r].pc # "idle")
              => call'[r] = [NewCall EXCEPT !.pc = call'[r].pc,
                                            !.key = call'[r].key,
                                            !.machine_id = call'[r].machine_id,
                                            !.result = call'[r].result]
        /\ (call'[r] # call[r] /\ call[r].pc # "idle"
                               /\ Outcome(obs[r]) # GrantedNew)
              => StoreUnchanged
        /\ (call'[r] # call[r] /\ activations' # activations)
              => /\ licenses' = licenses /\ valid_keys' = valid_keys
                 /\ \E lid \in LicenseIds(call[r].key) :
                       activations' = Append(activations,
                            [license_id |-> lid, machine_id |-> call[r].machine_id])

C17_Deterministic == []C17_Inv /\ [][C17_Frame]_vars

\* C17 witness: a thread that served two grants before serves a call of a
\* bound machine after the revocation, and returns the denial fixed by the store
C17_Witness ==
    \E r \in Requests :
        /\ Done(r) /\ call[r].result = DeniedRevoked
        /\ obs[r].bound /\ obs[r].revoked
        /\ Len(activations) = 2

\* C18: no call executes its INSERT, commits its row or returns GrantedNew at
\* a moment when the license of the row is revoked.
C18_Frame ==
    \A r \in Requests :
        /\ (call[r].pc = "insert" /\ call'[r].pc = "commit")
              => ~licenses[call[r].license_id].is_revoked
        /\ (call[r].pc = "commit" /\ call'[r].result = GrantedNew)
              => ~licenses[call[r].license_id].is_revoked

C18_RevokedInert == [][C18_Frame]_vars

\* C19: the license read of a call whose key has a licenses row takes the
\* license branch, whether or not the key is also in valid_keys; the test keys
\* are read only after a license read that found nothing, and
\* SimulatedTestSuccess is returned only from there; a call that read a
\* revoked license row returns DeniedRevoked unless a statement raised.
C19_Inv ==
    \A r \in Requests :
        /\ call[r].license_id # 0
              => (call[r].pc # "validkey" /\ call[r].result # SimulatedTestSuccess)
        /\ (Done(r) /\ call[r].license_id # 0 /\ call[r].is_revoked
                    /\ obs[r].raised = "none")
              => call[r].result = DeniedRevoked

C19_Frame ==
    \A r \in Requests :
        /\ ( /\ call[r].pc = "license" /\ call'[r] # call[r]
             /\ obs'[r].raised = "none"
             /\ LicenseIds(call[r].key) # {} )
              => /\ call'[r].license_id \in LicenseIds(call[r].key)
                 /\ call'[r].pc \in {"binding", "done"}
                 /\ call'[r].pc = "done" => call'[r].result = DeniedRevoked
        /\ (call'[r].pc = "validkey" /\ call[r].pc # "validkey")
              => (call[r].pc = "license" /\ LicenseIds(call[r].key) = {})
        /\ (call'[r].result = SimulatedTestSuccess
                /\ call[r].result # SimulatedTestSuccess)
              => (call[r].pc = "validkey" /\ call[r].license_id = 0)

C19_LicenseBeforeTestKey == []C19_Inv /\ [][C19_Frame]_vars

\* C19 witness: for a key stored in both tables one call was denied at full
\* quota and, after the revocation, another was denied as revoked
C19_Witness ==
    \E r, q \in Requests :
        /\ Done(r) /\ Done(q) /\ call[r].key = call[q].key
        /\ call[r].key \in TestKeySet /\ LicenseIds(call[r].key) # {}
        /\ call[r].result = DeniedQuotaExceeded
        /\ call[q].result = DeniedRevoked

\* C20: grants and rows correspond one to one.  Every step adds as many rows
\* as calls newly return GrantedNew in it, at most one, the row being the one
\* that call inserted; so for each license the calls that have returned
\* GrantedNew never outnumber its rows.  A row written by an INSERT and not yet
\* committed belongs to exactly one call, which is at its commit; once all
\* calls have returned no such row is left, and a call that inserted and in
\* which nothing raised has returned GrantedNew with its row in the table.
Granted(lid) ==
    {r \in Requests :
        Done(r) /\ call[r].result = GrantedNew /\ call[r].license_id = lid}

C20_Inv ==
    /\ \A lid \in DOMAIN licenses :
          /\ Cardinality(Granted(lid)) <= Cardinality(LicenseRows(lid))
          /\ \A r, q \in Granted(lid) :
                r # q => call[r].machine_id # call[q].machine_id
    /\ \A r \in Requests :
          /\ (Done(r) /\ call[r].result = GrantedNew)
                => (call[r].license_id \in DOMAIN licenses /\ obs[r].inserts = 1
                    /\ Cardinality(Rows(call[r].license_id, call[r].machine_id)) = 1)
          /\ (Done(r) /\ obs[r].inserts = 1 /\ obs[r].raised = "none")
                => call[r].result = GrantedNew
          /\ writer = r <=> call[r].pc = "commit"
    /\ writer # 0 => writer \in Requests
    /\ (\A r \in Requests : call[r].pc \in {"idle", "done"}) => writer = 0

C20_Frame ==
    LET new == {r \in Requests :
                   call'[r].result = GrantedNew /\ call[r].result # GrantedNew}
    IN  /\ Cardinality(new) <= 1
        /\ Len(activations') = Len(activations) + Cardinality(new)
        /\ \A r \in new :
              /\ call[r].pc = "commit" /\ writer = r /\ obs[r].inserts = 1
              /\ activations' = Append(activations,
                      [license_id |-> call[r].license_id,
                       machine_id |-> call[r].machine_id])

C20_GrantsMatchRows == []C20_Inv /\ [][C20_Frame]_vars

\* C20 witness: all calls have returned, two of them GrantedNew on a license
\* with max_activations 1, and the license has two rows
C20_Witness ==
    /\ \A r \in Requests : Done(r) /\ call[r].result = GrantedNew
    /\ \E lid \in DOMAIN licenses :
          /\ licenses[lid].max_activations = 1
          /\ Cardinality(Granted(lid)) = 2
          /\ Cardinality(LicenseRows(lid)) = 2

====
